---------------------------- MODULE Spec2Model ----------------------------
(***************************************************************************)
(* Verification model of eozd/experiments: the iterative nonnegative       *)
(* matrix factorization nmf (numpy notebook and Cython notebook) and the   *)
(* closed-form rank_one_nmf.                                               *)
(*                                                                         *)
(* Numbers are IEEE doubles in the program.  A value of the model is       *)
(* <<kind, num, den>>: a rational, +Inf, -Inf or NaN, so that every        *)
(* special-value rule of the float operations the code performs (x/0, 0/0, *)
(* 0*Inf, Inf-Inf, log 0, comparisons with NaN) is kept.  nmf is computed  *)
(* with exact rationals (what is stated of it is stated up to 1e-6 or is   *)
(* about the order of its steps); rank_one_nmf, whose result is compared   *)
(* with X entry by entry, and the convergence bookkeeping taken alone,     *)
(* whose two means are compared for equality, are computed with rounding   *)
(* after every operation.                                                  *)
(* Signed zeros, overflow and underflow are not modelled.                  *)
(***************************************************************************)
EXTENDS Integers, Sequences, FiniteSets, TLC

\* ------------------------------------------------------------------------
\* Bounds of the model.
MaxDim == 2          \* X has 1..MaxDim rows and 1..MaxDim columns
MaxX   == 1          \* entries of the generated X lie in 0..MaxX (or are -1)
Prec   == 7          \* bits of the significand of a rounded float
MaxObjs == 11        \* objectives fed to the convergence bookkeeping alone

\* Program constants.
HistCapNumpy  == 100       \* prev_objs = np.zeros(100)
HistCapCython == 10        \* prev_objs = np.zeros(10, dtype=DTYPE)
EpsDen        == 1000000   \* the threshold 1e-6 is 1/EpsDen

\* ------------------------------------------------------------------------
\* Extended rational arithmetic (the float operations of the code).

RECURSIVE GCD(_, _)
GCD(a, b) == IF b = 0 THEN a ELSE GCD(b, a % b)

AbsInt(k) == IF k < 0 THEN -k ELSE k

NaN  == <<"nan", 0, 1>>
PInf == <<"pinf", 0, 1>>
NInf == <<"ninf", 0, 1>>

\* the rational num/den (den # 0) in lowest terms
Fin(num, den) ==
    LET g == GCD(AbsInt(num), AbsInt(den))
        s == IF den < 0 THEN -1 ELSE 1
    IN  <<"fin", (s * num) \div g, (s * den) \div g>>

\* (p/q)*(u/v) in lowest terms, cancelling before multiplying
FinMul(p, q, u, v) ==
    LET g1 == GCD(AbsInt(p), AbsInt(v))
        g2 == GCD(AbsInt(u), AbsInt(q))
    IN  IF p = 0 \/ u = 0 THEN <<"fin", 0, 1>>
        ELSE Fin((p \div g1) * (u \div g2), (q \div g2) * (v \div g1))

Zero == <<"fin", 0, 1>>
One  == <<"fin", 1, 1>>
IntV(k) == <<"fin", k, 1>>

IsFin(v) == v[1] = "fin"
IsNaN(v) == v[1] = "nan"
IsInf(v) == v[1] \in {"pinf", "ninf"}
Sign(v) == CASE v[1] = "pinf" -> 1
             [] v[1] = "ninf" -> -1
             [] v[1] = "fin"  -> (IF v[2] > 0 THEN 1 ELSE IF v[2] < 0 THEN -1 ELSE 0)
             [] OTHER -> 0
InfOf(s) == IF s > 0 THEN PInf ELSE NInf

Neg(v) == CASE v[1] = "fin"  -> <<"fin", -v[2], v[3]>>
            [] v[1] = "pinf" -> NInf
            [] v[1] = "ninf" -> PInf
            [] OTHER -> NaN

Add(a, b) ==
    CASE IsNaN(a) \/ IsNaN(b) -> NaN
      [] IsInf(a) /\ IsInf(b) -> (IF a = b THEN a ELSE NaN)
      [] IsInf(a) -> a
      [] IsInf(b) -> b
      [] OTHER -> LET l == (a[3] \div GCD(a[3], b[3])) * b[3]   \* common denominator
                  IN  Fin(a[2] * (l \div a[3]) + b[2] * (l \div b[3]), l)

Sub(a, b) == Add(a, Neg(b))

Mul(a, b) ==
    CASE IsNaN(a) \/ IsNaN(b) -> NaN
      [] IsInf(a) \/ IsInf(b) ->
            (IF Sign(a) = 0 \/ Sign(b) = 0 THEN NaN ELSE InfOf(Sign(a) * Sign(b)))
      [] OTHER -> FinMul(a[2], a[3], b[2], b[3])

\* float division: x/0 is +-Inf, 0/0 and Inf/Inf are NaN, no exception
\* (numpy arrays; Cython cdivision(True))
Div(a, b) ==
    CASE IsNaN(a) \/ IsNaN(b) -> NaN
      [] IsInf(a) /\ IsInf(b) -> NaN
      [] IsInf(a) -> InfOf(Sign(a) * (IF Sign(b) < 0 THEN -1 ELSE 1))
      [] IsInf(b) -> Zero
      [] b[2] = 0 -> (IF a[2] = 0 THEN NaN ELSE InfOf(Sign(a)))
      [] OTHER -> FinMul(a[2], a[3], b[3], b[2])

AbsV(v) == CASE v[1] = "fin"  -> <<"fin", AbsInt(v[2]), v[3]>>
             [] v[1] = "nan"  -> NaN
             [] OTHER -> PInf

\* v < 1e-6 for v = abs(...): false for NaN and Inf.  num*EpsDen < den is
\* decided as num <= (den-1) \div EpsDen.
LtEps(v) == IsFin(v) /\ v[2] <= (v[3] - 1) \div EpsDen

\* np.log: log(0) = -Inf, log of a negative number or of NaN is NaN,
\* log(+Inf) = +Inf.  For a positive finite q the irrational ln(q) is
\* replaced by the rational 2(q-1)/(q+1), the first term of
\* ln q = 2 artanh((q-1)/(q+1)): exact at 1, of the sign of ln q,
\* strictly increasing.
Log(v) ==
    CASE v[1] = "nan"  -> NaN
      [] v[1] = "pinf" -> PInf
      [] v[1] = "ninf" -> NaN
      [] v[2] < 0 -> NaN
      [] v[2] = 0 -> NInf
      [] OTHER -> Fin(2 * (v[2] - v[3]), v[2] + v[3])

\* np.sum / an accumulation loop over the values of a sequence (0 for an
\* empty one).  The order of the additions does not change an exact sum or
\* the Inf/NaN it ends in; the sum is taken by halves.
RECURSIVE SumRange(_, _, _)
SumRange(s, lo, hi) ==
    IF lo > hi THEN Zero
    ELSE IF lo = hi THEN s[lo]
    ELSE LET mid == (lo + hi) \div 2
         IN  Add(SumRange(s, lo, mid), SumRange(s, mid + 1, hi))
SumSeq(s) == SumRange(s, 1, Len(s))

\* ------------------------------------------------------------------------
\* Matrices are sequences of rows; a vector is a sequence.

ConstMat(rows, cols, v) == [i \in 1..rows |-> [j \in 1..cols |-> v]]
Col(A, j) == [i \in 1..Len(A) |-> A[i][j]]

\* W@H for W of shape (mm, rr) and H of shape (rr, nn)
MatMul(A, B, mm, nn, rr) ==
    [i \in 1..mm |-> [mu \in 1..nn |->
        SumSeq([a \in 1..rr |-> Mul(A[i][a], B[a][mu])])]]

\* obj_func: np.sum(orig*np.log(approx) - approx)
obj_func(orig, approx) ==
    SumSeq([i \in 1..Len(orig) |->
        SumSeq([mu \in 1..Len(orig[i]) |->
            Sub(Mul(orig[i][mu], Log(approx[i][mu])), approx[i][mu])])])

\* np.mean(prev_objs): every slot counts, written or not
Mean(objs) == Div(SumSeq(objs), IntV(Len(objs)))

\* Update each element of W: W[i, a] *= sum_mu X[i, mu]/XA[i, mu]*H[a, mu]
W_update(Xm, XAm, Wm, Hm) ==
    [i \in 1..Len(Wm) |-> [a \in 1..Len(Wm[i]) |->
        Mul(Wm[i][a],
            SumSeq([mu \in 1..Len(Xm[i]) |->
                Mul(Div(Xm[i][mu], XAm[i][mu]), Hm[a][mu])]))]]

\* (faulty variant of W_normalize: the sum is taken along the row, not the column)
W_normalize_by_rows(Wm) ==
    [i \in 1..Len(Wm) |-> [a \in 1..Len(Wm[i]) |->
        Div(Wm[i][a], SumSeq(Wm[i]))]]

\* Normalize columns of W: W[i, a] /= col_sum, col_sum = sum_i W[i, a]
W_normalize(Wm) ==
    [i \in 1..Len(Wm) |-> [a \in 1..Len(Wm[i]) |->
        Div(Wm[i][a], SumSeq(Col(Wm, a)))]]

\* Update each element of H: H[a, mu] *= sum_i W[i, a]*X[i, mu]/XA[i, mu]
H_update(Xm, XAm, Wm, Hm) ==
    [a \in 1..Len(Hm) |-> [mu \in 1..Len(Hm[a]) |->
        Mul(Hm[a][mu],
            SumSeq([i \in 1..Len(Xm) |->
                Div(Mul(Wm[i][a], Xm[i][mu]), XAm[i][mu])]))]]

\* ------------------------------------------------------------------------
\* Rounded arithmetic of rank_one_nmf.  Its result is compared with X entry
\* by entry, so the rounding of each float operation is kept: a binary float
\* with a significand of Prec bits, rounded to nearest, ties to even (the
\* double of the program has 53 bits; the exponent range is not bounded).

RECURSIVE Pow2(_)
Pow2(k) == IF k <= 0 THEN 1 ELSE 2 * Pow2(k - 1)

\* <<a, q, e>> with a/q in [2^(Prec-1), 2^Prec) and a/q * 2^e the value a0/q0
RECURSIVE Normalize(_, _, _)
Normalize(a, q, e) ==
    IF a \div q >= Pow2(Prec)
    THEN (IF a % 2 = 0 THEN Normalize(a \div 2, q, e + 1)
                       ELSE Normalize(a, 2 * q, e + 1))
    ELSE IF a \div q < Pow2(Prec - 1)
    THEN (IF q % 2 = 0 THEN Normalize(a, q \div 2, e - 1)
                       ELSE Normalize(2 * a, q, e - 1))
    ELSE <<a, q, e>>

\* the float nearest to v
FRound(v) ==
    IF ~IsFin(v) \/ v[2] = 0 THEN v
    ELSE LET t == Normalize(AbsInt(v[2]), v[3], 0)
             f == t[1] \div t[2]
             rem == t[1] % t[2]
             up == 2 * rem > t[2] \/ (2 * rem = t[2] /\ f % 2 = 1)
             mant == (IF v[2] < 0 THEN -1 ELSE 1) * (IF up THEN f + 1 ELSE f)
         IN  IF t[3] >= 0 THEN Fin(mant * Pow2(t[3]), 1)
                          ELSE Fin(mant, Pow2(-t[3]))

FAdd(a, b) == FRound(Add(a, b))
FMul(a, b) == FRound(Mul(a, b))
FDiv(a, b) == FRound(Div(a, b))

\* <<a, q, k>> with a/q in [4^Prec, 4^(Prec+1)) and a/q * 4^k the value a0/q0
RECURSIVE Normalize4(_, _, _)
Normalize4(a, q, k) ==
    IF a \div q >= Pow2(2 * Prec + 2)
    THEN (IF a % 4 = 0 THEN Normalize4(a \div 4, q, k + 1)
                       ELSE Normalize4(a, 4 * q, k + 1))
    ELSE IF a \div q < Pow2(2 * Prec)
    THEN (IF q % 4 = 0 THEN Normalize4(a, q \div 4, k - 1)
                       ELSE Normalize4(4 * a, q, k - 1))
    ELSE <<a, q, k>>

\* floor of the square root of N, known to lie in lo..hi
RECURSIVE ISqrt(_, _, _)
ISqrt(N, lo, hi) ==
    IF lo >= hi THEN lo
    ELSE LET mid == (lo + hi + 1) \div 2
         IN  IF mid * mid <= N THEN ISqrt(N, mid, hi) ELSE ISqrt(N, lo, mid - 1)

\* np.sqrt, correctly rounded: sqrt of a negative number or of NaN is NaN
FSqrt(v) ==
    CASE v[1] = "nan"  -> NaN
      [] v[1] = "pinf" -> PInf
      [] v[1] = "ninf" -> NaN
      [] v[2] < 0 -> NaN
      [] v[2] = 0 -> Zero
      [] OTHER ->
            LET t == Normalize4(v[2], v[3], 0)
                N == t[1] \div t[2]
                s == ISqrt(N, Pow2(Prec), Pow2(Prec + 1) - 1)   \* Prec+1 bits
                exact == t[1] % t[2] = 0 /\ s * s = N
                f == s \div 2
                up == s % 2 = 1 /\ (~exact \/ f % 2 = 1)
                mant == 2 * (IF up THEN f + 1 ELSE f)
            IN  IF t[3] >= 0 THEN Fin(mant * Pow2(t[3]), 1)
                             ELSE Fin(mant, Pow2(-t[3]))

\* a float accumulation s[1] + s[2] + ... from 0, rounded at every addition
RECURSIVE FSumTo(_, _)
FSumTo(s, k) == IF k = 0 THEN Zero ELSE FAdd(FSumTo(s, k - 1), s[k])
FSum(s) == FSumTo(s, Len(s))

\* np.dot of two vectors
FDot(u, v) == FSum([k \in 1..Len(u) |-> FMul(u[k], v[k])])
\* la.norm of a vector
Norm(wv) == FSqrt(FDot(wv, wv))
\* np.outer
FOuter(u, v) == [k \in 1..Len(u) |-> [mu \in 1..Len(v) |-> FMul(u[k], v[mu])]]

\* rank_one_nmf, the loop body for column index col (1-based):
\*   w_unit = w/la.norm(w)
w_unit(wv) ==
    LET nrm == Norm(wv)
    IN  [k \in 1..Len(wv) |-> FDiv(wv[k], nrm)]
\*   proj = np.dot(X[:, i], w_unit)*w_unit
Proj(xcol, wv) ==
    LET wu == w_unit(wv)
        d == FDot(xcol, wu)
    IN  [k \in 1..Len(wv) |-> FMul(d, wu[k])]

\* (faulty variant of h_estimate: np.sum in place of np.mean)
h_estimate_by_sum(Xm, wv, col) ==
    LET proj == Proj(Col(Xm, col), wv)
    IN  FSum([k \in 1..Len(wv) |-> FDiv(proj[k], wv[k])])

\*   h[i] = np.mean(proj/w)
h_estimate(Xm, wv, col) ==
    LET proj == Proj(Col(Xm, col), wv)
    IN  FDiv(FSum([k \in 1..Len(wv) |-> FDiv(proj[k], wv[k])]), IntV(Len(wv)))

\* w = X[:, 0]
w_choice(Xm) == Col(Xm, 1)

\* ------------------------------------------------------------------------
\* State.
VARIABLES
    impl,        \* which function runs: "numpy" / "cython" nmf, or "rank_one"
    pc,          \* position in the running function
    X, r,        \* the arguments
    W, H, XA,    \* nmf: the factors and the reconstruction
    curr_obj,    \* nmf: objective of the current iteration
    prev_objs,   \* nmf: history buffer (slot k of the code is prev_objs[k+1])
    prev_index,  \* nmf: next write position, 0-based as in the code
    prev_mean,   \* nmf (Cython): incrementally maintained mean
    w, h, i,     \* rank_one_nmf: the vectors and the loop index (0-based)
    nrec,        \* history variable: objectives recorded so far (saturating)
    snap,        \* history variable: the loop state at an earlier loop head
    recorded     \* history variable: the last recorded objectives, oldest
                 \* first, at most as many as the history has slots

vars == <<impl, pc, X, r, W, H, XA, curr_obj, prev_objs, prev_index,
          prev_mean, w, h, i, nrec, snap, recorded>>

nmf_vars == <<W, H, XA, curr_obj, prev_objs, prev_index, prev_mean, nrec, snap,
              recorded>>
r1_vars  == <<w, h, i>>

m == Len(X)
n == Len(X[1])
IsNmf == impl \in {"numpy", "cython"}
HistCap == IF impl = "numpy" THEN HistCapNumpy ELSE HistCapCython

\* nrec stops counting at MaxRec (it only has to tell the first passes of
\* the history buffer from the later ones)
MaxRec == HistCap + 2

\* ------------------------------------------------------------------------
\* Inputs.

Min(a, b) == IF a < b THEN a ELSE b
Shapes == (1..MaxDim) \X (1..MaxDim)

\* nmf: the matrices whose rows are constant, row k holding a[k].  The
\* Cython version takes every such matrix with entries in 0..MaxX, and those
\* with -1 (the negative entry of an invalid X) in the first row.  The numpy
\* version keeps 100 objectives, its runs are ten times as long, and it takes
\* the square matrices with all entries equal.
RowMat(a, cols) == [k \in 1..Len(a) |-> [mu \in 1..cols |-> IntV(a[k])]]
RowVecs(rows) ==
    { a \in [1..rows -> (-1)..MaxX] : \A k \in 2..rows : a[k] >= 0 }
NmfInputs(version) ==
    UNION { { RowMat(a, sh[2]) :
                a \in { b \in RowVecs(sh[1]) :
                          version = "numpy" =>
                              /\ sh[1] = sh[2]
                              /\ b[1] >= 0 /\ \A k \in 1..sh[1] : b[k] = b[1] } } :
            sh \in Shapes }

\* rank_one_nmf: np.outer of small nonnegative integer vectors, and the
\* notebook's example np.outer([5, 3, 7], [0.1, 2, 3, 0.7]) (0.1 and 0.7 are
\* the floats nearest to 1/10 and 7/10)
IntVec(a) == [k \in 1..Len(a) |-> IntV(a[k])]
ExampleW == <<IntV(5), IntV(3), IntV(7)>>
ExampleH == <<FRound(Fin(1, 10)), IntV(2), IntV(3), FRound(Fin(7, 10))>>
ExampleX == FOuter(ExampleW, ExampleH)
RankOneInputs ==
    { ExampleX } \cup
    UNION { { FOuter(IntVec(u), IntVec(v)) :
                u \in [1..sh[1] -> 0..MaxX], v \in [1..sh[2] -> 0..MaxX] } :
            sh \in Shapes }

\* np.random.rand: each entry is some double in [0, 1).  The model offers
\* three draws: every entry 1/2; W graded along its rows (1/2, 1/3, ...) with
\* every entry of H 1/2; every entry 1/1024.  In each the r columns of W are equal
\* and so are the r rows of H, which keeps the exact iteration in small
\* numbers.  The very small draw is offered for an all-zero X only, where the
\* objective stays within the integers TLC computes with.
AllZero(Xm) == \A k \in 1..Len(Xm) : \A mu \in 1..Len(Xm[k]) : Xm[k][mu] = Zero
RandDraws(Xm) == {"half", "graded"} \cup (IF AllZero(Xm) THEN {"tiny"} ELSE {})
RandW(d, rows, cols) ==
    [k \in 1..rows |-> [a \in 1..cols |->
        CASE d = "half" -> Fin(1, 2)
          [] d = "graded" -> Fin(1, k + 1)
          [] OTHER -> Fin(1, 1024)]]
RandH(d, rows, cols) ==
    [a \in 1..rows |-> [mu \in 1..cols |->
        CASE d = "half" -> Fin(1, 2)
          [] d = "graded" -> Fin(1, 2)
          [] OTHER -> Fin(1, 1024)]]

Init ==
    /\ impl \in {"numpy", "cython", "rank_one"}
    /\ X \in (IF impl = "rank_one" THEN RankOneInputs ELSE NmfInputs(impl))
    /\ r \in (IF impl = "rank_one" THEN {1} ELSE 0..(Min(Len(X), Len(X[1])) + 1))
    /\ pc = "start"
    /\ W = <<>> /\ H = <<>> /\ XA = <<>>
    /\ curr_obj = Zero
    /\ prev_objs = <<>>
    /\ prev_index = 0
    /\ prev_mean = Zero
    /\ w = <<>> /\ h = <<>> /\ i = 0
    /\ nrec = 0
    /\ snap = <<>>
    /\ recorded = <<>>

\* ------------------------------------------------------------------------
\* nmf(X, r)

\* the declarations before the loop: W, H random, history zeroed
nmf_allocate ==
    /\ IsNmf /\ pc = "start"
    /\ \E d \in RandDraws(X) :
          /\ W' = RandW(d, m, r)
          /\ H' = RandH(d, r, n)
    /\ prev_objs' = [k \in 1..HistCap |-> Zero]
    /\ prev_index' = 0
    /\ prev_mean' = Zero
    /\ pc' = "xa"
    /\ UNCHANGED <<impl, X, r, XA, curr_obj, nrec, snap, recorded, r1_vars>>

\* everything an iteration of the loop reads (X and r never change)
LoopState == <<W, H, prev_objs, prev_index, prev_mean>>

\* while True: XA = W@H
\* (snap keeps the loop state of the first loop head reached after nrec
\* stopped counting)
compute_XA ==
    /\ IsNmf /\ pc = "xa"
    /\ XA' = MatMul(W, H, m, n, r)
    /\ pc' = "check"
    /\ snap' = (IF snap = <<>> /\ nrec = MaxRec THEN LoopState ELSE snap)
    /\ UNCHANGED <<impl, X, r, W, H, curr_obj, prev_objs, prev_index, prev_mean,
                   nrec, recorded, r1_vars>>

\* (faulty variant of next_index: the position wraps one slot early)
next_index_short(idx, cap) == (idx + 1) % (cap - 1)

\* prev_index = (prev_index + 1)%10 (%100 in the numpy version)
next_index(idx, cap) == (idx + 1) % cap

\* the last recorded objectives after obj is recorded
Remember(obj) ==
    IF Len(recorded) < HistCap THEN Append(recorded, obj)
                               ELSE Append(Tail(recorded), obj)

\* the mean the convergence test compares with
test_mean == IF impl = "numpy" THEN Mean(prev_objs) ELSE prev_mean

\* (faulty variant of convergence_check: the objective is recorded first and the test
\* reads the history that already holds it)
convergence_check_insert_first ==
    /\ IsNmf /\ pc = "check"
    /\ curr_obj' = obj_func(X, XA)
    /\ prev_mean' =
          (IF impl = "cython"
           THEN Div(Add(Sub(Mul(IntV(HistCap), prev_mean),
                            prev_objs[prev_index + 1]), curr_obj'),
                    IntV(HistCap))
           ELSE prev_mean)
    /\ prev_objs' = [prev_objs EXCEPT ![prev_index + 1] = curr_obj']
    /\ prev_index' = next_index(prev_index, HistCap)
    /\ nrec' = (IF nrec < MaxRec THEN nrec + 1 ELSE nrec)
    /\ recorded' = Remember(curr_obj')
    /\ pc' = (IF LtEps(AbsV(Sub(curr_obj',
                    IF impl = "numpy" THEN Mean(prev_objs') ELSE prev_mean')))
              THEN "done" ELSE "updW")
    /\ UNCHANGED <<impl, X, r, W, H, XA, snap, r1_vars>>

\* Convergence check: curr_obj = obj_func(X, XA); break when
\* abs(curr_obj - mean) < 1e-6, else record curr_obj in the history
convergence_check ==
    /\ IsNmf /\ pc = "check"
    /\ curr_obj' = obj_func(X, XA)
    /\ IF LtEps(AbsV(Sub(curr_obj', test_mean)))
       THEN /\ pc' = "done"
            /\ UNCHANGED <<prev_objs, prev_index, prev_mean, nrec, recorded>>
       ELSE /\ prev_mean' =
                 (IF impl = "cython"
                  THEN Div(Add(Sub(Mul(IntV(HistCap), prev_mean),
                                   prev_objs[prev_index + 1]), curr_obj'),
                           IntV(HistCap))
                  ELSE prev_mean)
            /\ prev_objs' = [prev_objs EXCEPT ![prev_index + 1] = curr_obj']
            /\ prev_index' = next_index(prev_index, HistCap)
            /\ nrec' = (IF nrec < MaxRec THEN nrec + 1 ELSE nrec)
            /\ recorded' = Remember(curr_obj')
            /\ pc' = "updW"
    /\ UNCHANGED <<impl, X, r, W, H, XA, snap, r1_vars>>

update_W ==
    /\ IsNmf /\ pc = "updW"
    /\ W' = W_update(X, XA, W, H)
    /\ pc' = "norm"
    /\ UNCHANGED <<impl, X, r, H, XA, curr_obj, prev_objs, prev_index, prev_mean,
                   nrec, snap, recorded, r1_vars>>

normalize_W ==
    /\ IsNmf /\ pc = "norm"
    /\ W' = W_normalize(W)
    /\ pc' = "updH"
    /\ UNCHANGED <<impl, X, r, H, XA, curr_obj, prev_objs, prev_index, prev_mean,
                   nrec, snap, recorded, r1_vars>>

\* (faulty variant of update_H: XA is recomputed from the updated W before the
\* H-update)
update_H_fresh_XA ==
    /\ IsNmf /\ pc = "updH"
    /\ H' = H_update(X, MatMul(W, H, m, n, r), W, H)
    /\ pc' = "xa"
    /\ UNCHANGED <<impl, X, r, W, XA, curr_obj, prev_objs, prev_index, prev_mean,
                   nrec, snap, recorded, r1_vars>>

\* Update each element of H, with the XA of the start of the iteration
update_H ==
    /\ IsNmf /\ pc = "updH"
    /\ H' = H_update(X, XA, W, H)
    /\ pc' = "xa"
    /\ UNCHANGED <<impl, X, r, W, XA, curr_obj, prev_objs, prev_index, prev_mean,
                   nrec, snap, recorded, r1_vars>>

\* ------------------------------------------------------------------------
\* rank_one_nmf(X)

\* w = X[:, 0]; h = np.ones(n)
rank_one_begin ==
    /\ impl = "rank_one" /\ pc = "start"
    /\ w' = w_choice(X)
    /\ h' = [k \in 1..n |-> One]
    /\ i' = 1
    /\ pc' = "loop"
    /\ UNCHANGED <<impl, X, r, nmf_vars>>

\* for i in range(1, n): h[i] = ...
rank_one_step ==
    /\ impl = "rank_one" /\ pc = "loop" /\ i < n
    /\ h' = [h EXCEPT ![i + 1] = h_estimate(X, w, i + 1)]
    /\ i' = i + 1
    /\ UNCHANGED <<impl, pc, X, r, w, nmf_vars>>

\* return w, h
rank_one_return ==
    /\ impl = "rank_one" /\ pc = "loop" /\ i >= n
    /\ pc' = "done"
    /\ UNCHANGED <<impl, X, r, r1_vars, nmf_vars>>

Next ==
    \/ nmf_allocate
    \/ compute_XA
    \/ convergence_check
    \/ update_W
    \/ normalize_W
    \/ update_H
    \/ rank_one_begin
    \/ rank_one_step
    \/ rank_one_return

Spec == Init /\ [][Next]_vars

\* ------------------------------------------------------------------------
\* Vocabulary of the properties.

NonNeg(v) == IsFin(v) /\ v[2] >= 0
Entries(A) == { A[k][mu] : k \in 1..Len(A), mu \in 1..(IF Len(A) = 0 THEN 0 ELSE Len(A[1])) }
\* X entrywise nonnegative and 1 <= r <= min(m, n)
ValidInput == (\A v \in Entries(X) : NonNeg(v)) /\ r >= 1 /\ r <= Min(m, n)
Allocated == pc # "start"
ColSum(A, a) == SumSeq(Col(A, a))
\* some value the run holds is NaN or +-Inf
Undefined ==
    \/ \E v \in Entries(W) \cup Entries(H) \cup Entries(XA) : ~IsFin(v)
    \/ ~IsFin(curr_obj)
InLoop == pc \in {"xa", "check", "updW", "norm", "updH"}

\* ------------------------------------------------------------------------
\* C1: every run of nmf on a valid (X, r) terminates, no input can make the
\* loop run forever.  The loop is deterministic in LoopState, so a run that
\* terminates never comes back to the loop head in a loop state it was in
\* at an earlier loop head.
C1_EveryRunTerminates ==
    (IsNmf /\ ValidInput /\ pc = "xa" /\ snap # <<>>) => LoopState # snap

\* C2 as claimed: whenever nmf returns (the code returns only on
\* convergence), each column of W sums to 1 within 1e-6, whatever the
\* number of update steps before.
C2_ConvergedColumnsSumToOne ==
    (IsNmf /\ ValidInput /\ pc = "done") =>
        \A a \in 1..r : LtEps(AbsV(Sub(ColSum(W, a), One)))

\* C2 as amended: whenever nmf returns after at least one update step, each
\* column of W sums to 1 within 1e-6.
C2_ColumnsSumToOneAfterUpdate ==
    (IsNmf /\ ValidInput /\ pc = "done" /\ nrec >= 1) =>
        \A a \in 1..r : LtEps(AbsV(Sub(ColSum(W, a), One)))

\* a run on a 2-row X with r = 2 that converged after the history wrapped
C2_Witness ==
    /\ IsNmf /\ ValidInput /\ pc = "done" /\ nrec > HistCap
    /\ r = 2 /\ m = 2
    /\ W = ConstMat(2, 2, Fin(1, 2))

\* C3: on a valid (X, r), zeros allowed, every entry of W and of H is a
\* number >= 0 at every point of the iteration and at return.
C3_FactorsNonNegative ==
    (IsNmf /\ ValidInput) => \A v \in Entries(W) \cup Entries(H) : NonNeg(v)

\* C4: in every iteration XA is computed once, from the factors at the start
\* of the iteration; the order is compute XA, convergence test, update W,
\* renormalize W, update H; the W-update and the H-update read that same XA,
\* and the H-update reads the renormalized W.
C4_StaleXAOrder ==
    [][IsNmf =>
        /\ pc = "xa" =>
              /\ pc' = "check"
              /\ XA' = MatMul(W, H, m, n, r)
              /\ W' = W /\ H' = H
        /\ pc = "check" =>
              /\ pc' \in {"updW", "done"}
              /\ XA' = XA /\ W' = W /\ H' = H
        /\ pc = "updW" =>
              /\ pc' = "norm"
              /\ XA' = XA /\ H' = H
              /\ \A k \in 1..m : \A a \in 1..r :
                    W'[k][a] = Mul(W[k][a],
                        SumSeq([mu \in 1..n |-> Mul(Div(X[k][mu], XA[k][mu]), H[a][mu])]))
        /\ pc = "norm" =>
              /\ pc' = "updH"
              /\ XA' = XA /\ H' = H
        /\ pc = "updH" =>
              /\ pc' = "xa"
              /\ XA' = XA /\ W' = W
              /\ \A a \in 1..r : \A mu \in 1..n :
                    H'[a][mu] = Mul(H[a][mu],
                        SumSeq([k \in 1..m |-> Div(Mul(W[k][a], X[k][mu]), XA[k][mu])]))
    ]_vars

\* after an H-update of a run on numbers: the XA the iteration used is not
\* the product of the factors it produced
C4_Witness ==
    /\ IsNmf /\ ValidInput /\ pc = "xa" /\ nrec >= 1 /\ ~Undefined
    /\ XA # MatMul(W, H, m, n, r)

\* the inputs X = np.outer(w0, h0) with w0 strictly positive, h0 nonnegative
\* and h0[0] > 0
RankOneProducts ==
    { ExampleX } \cup
    UNION { { FOuter(IntVec(u), IntVec(v)) :
                u \in [1..sh[1] -> 1..MaxX],
                v \in { x \in [1..sh[2] -> 0..MaxX] : x[1] >= 1 } } :
            sh \in Shapes }
\* the exact dot product of two vectors
Dot(u, v) == SumSeq([k \in 1..Len(u) |-> Mul(u[k], v[k])])
\* a equals b up to rounding: |a - b| <= 8 * 2^-Prec * |b|
WithinRounding(a, b) ==
    IF b = Zero THEN a = Zero
    ELSE LET q == Div(AbsV(Sub(a, b)), AbsV(b))
         IN  IsFin(q) /\ q[2] * Pow2(Prec) <= 8 * q[3]

\* C5 as claimed: for X = outer(w0, h0), w0 > 0, h0 >= 0, h0[0] > 0,
\* rank_one_nmf returns w = column 0 of X and h with h[0] = 1,
\* h[i] = dot(X[:, i], w)/dot(w, w), and outer(w, h) equals X entrywise.
C5_RankOneRoundTripExact ==
    (impl = "rank_one" /\ pc = "done" /\ X \in RankOneProducts) =>
        /\ w = Col(X, 1)
        /\ h[1] = One
        /\ \A c \in 2..n : h[c] = Div(Dot(Col(X, c), w), Dot(w, w))
        /\ FOuter(w, h) = X

\* C5 as amended: for such an X, rank_one_nmf returns w = column 0 of X and
\* h with h[0] = 1 exactly, while h[i] equals dot(X[:, i], w)/dot(w, w) and
\* the entries of outer(w, h) equal those of X up to rounding only (a
\* relative error of a few units in the last place).
C5_RankOneRoundTrip ==
    (impl = "rank_one" /\ pc = "done" /\ X \in RankOneProducts) =>
        /\ w = Col(X, 1)
        /\ h[1] = One
        /\ \A c \in 2..n :
              WithinRounding(h[c], Div(Dot(Col(X, c), w), Dot(w, w)))
        /\ \A k \in 1..m : \A c \in 1..n :
              WithinRounding(Mul(w[k], h[c]), X[k][c])

\* rank_one_nmf on the 2 x 2 matrix of ones: h[1] is a number that is not 1
C5_Witness ==
    /\ impl = "rank_one" /\ pc = "done"
    /\ X = ConstMat(2, 2, One)
    /\ w = <<One, One>>
    /\ h[1] = One /\ IsFin(h[2]) /\ h[2] # One

\* C6: rank_one_nmf never yields an undefined h[i]; a zero column i of X
\* yields h[i] = 0, also when w has zero entries.
C6_RankOneNoUndefined ==
    (impl = "rank_one" /\ pc = "done") =>
        \A c \in 2..n :
            /\ IsFin(h[c])
            /\ (\A k \in 1..m : X[k][c] = Zero) => h[c] = Zero

\* C7: once XA, the objective or a factor entry is NaN/Inf, nmf takes no
\* further step of the loop (it aborts with a numerical error).
C7_AbortOnUndefined ==
    [][(IsNmf /\ ValidInput /\ Undefined) => ~(InLoop')]_vars

\* C8: a column of W that sums to zero is not divided by its sum: the run
\* stops at the renormalization.
C8_NoDivisionByZeroColumnSum ==
    [][(IsNmf /\ ValidInput /\ pc = "norm" /\ \E a \in 1..r : ColSum(W, a) = Zero)
          => (W' = W /\ pc' # "updH")]_vars

\* C9: an invalid input (negative entry, r < 1, r > min(m, n)) is rejected
\* before factors are allocated or anything is computed.
C9_InvalidInputRejected == (IsNmf /\ ~ValidInput) => ~Allocated

\* C10: the convergence test of an iteration compares the objective with the
\* mean of the history as it stood before this objective was recorded, and
\* the objective is recorded only when the test fails; the first iteration
\* compares with the all-zero history.
C10_TestBeforeInsert ==
    /\ []((IsNmf /\ nrec = 0 /\ InLoop) =>
             prev_objs = [k \in 1..HistCap |-> Zero] /\ prev_mean = Zero)
    /\ [][(IsNmf /\ pc = "check") =>
            LET obj == obj_func(X, XA)
            IN  /\ curr_obj' = obj
                /\ IF LtEps(AbsV(Sub(obj, IF impl = "numpy" THEN Mean(prev_objs)
                                                              ELSE prev_mean)))
                   THEN pc' = "done" /\ prev_objs' = prev_objs
                   ELSE /\ pc' = "updW"
                        /\ prev_objs' = [prev_objs EXCEPT ![prev_index + 1] = obj]
          ]_vars

\* a run that stopped on a full history of equal objectives
C10_Witness ==
    /\ IsNmf /\ pc = "done" /\ nrec > HistCap
    /\ LtEps(AbsV(Sub(curr_obj, Mean(prev_objs))))
    /\ curr_obj # Zero

\* the history read from the write position on, i.e. oldest slot first
OldestFirst == [j \in 1..HistCap |-> prev_objs[((prev_index + j - 1) % HistCap) + 1]]
\* the recorded objectives, preceded by a 0 for every slot never written
ZeroPadded ==
    [j \in 1..HistCap |->
        IF j <= HistCap - Len(recorded) THEN Zero
        ELSE recorded[j - (HistCap - Len(recorded))]]

\* C11: the history is a ring buffer of HistCap slots: after t recorded
\* objectives the write position is t mod HistCap, within 0..HistCap-1, the
\* buffer holds exactly the last min(t, HistCap) recorded objectives (slots
\* never written are 0), and a write changes the slot at the write position
\* and no other, which is the oldest one once the buffer is full.
C11_RingBuffer ==
    /\ []((IsNmf /\ Allocated) =>
            /\ prev_index \in 0..(HistCap - 1)
            /\ (nrec < MaxRec => prev_index = nrec % HistCap)
            /\ Len(recorded) = (IF nrec < HistCap THEN nrec ELSE HistCap)
            /\ OldestFirst = ZeroPadded)
    /\ [][(IsNmf /\ pc = "check" /\ pc' = "updW") =>
            /\ \A k \in 1..HistCap :
                  k # prev_index + 1 => prev_objs'[k] = prev_objs[k]
            /\ prev_objs'[prev_index + 1] = curr_obj'
            /\ Len(recorded) = HistCap => prev_objs[prev_index + 1] = recorded[1]
          ]_vars

\* a full history whose write position has wrapped to slot 1 and whose slot
\* 0 was overwritten by the objective recorded last
C11_Witness ==
    /\ IsNmf /\ pc = "updW" /\ nrec = HistCap + 1 /\ prev_index = 1
    /\ prev_objs[1] = curr_obj
    /\ recorded[HistCap] = curr_obj
    /\ \A k \in 1..HistCap : IsFin(prev_objs[k]) /\ prev_objs[k] # Zero

\* C12: before the history is full, the mean the convergence test compares
\* with is the sum of the objectives recorded so far divided by their count.
C12_MeanOverRecordedCount ==
    (IsNmf /\ ValidInput /\ pc = "check" /\ nrec >= 1 /\ nrec < HistCap) =>
        test_mean = Div(SumSeq(recorded), IntV(Len(recorded)))

\* ------------------------------------------------------------------------
\* The convergence bookkeeping of nmf alone, with rounding.  Whether the
\* running mean of the Cython version equals the mean of the slots is a
\* question of exact equality, so here every float operation is rounded
\* (to Prec bits, as in rank_one_nmf) and the objective of each iteration is
\* an input: any sequence of objectives drawn from ObjValues.  The history
\* has the 10 slots of the Cython version.

\* (faulty variant of incremental_mean: the old mean is not scaled back to a
\* sum)
incremental_mean_unscaled(pm, old, new) ==
    FDiv(FAdd(FAdd(pm, Neg(old)), new), IntV(HistCapCython))

\* prev_mean = (10*prev_mean - prev_objs[prev_index] + curr_obj)/10
incremental_mean(pm, old, new) ==
    FDiv(FAdd(FAdd(FMul(IntV(HistCapCython), pm), Neg(old)), new),
         IntV(HistCapCython))

\* np.mean(prev_objs): the float sum of the slots, divided by their number
buffer_mean(objs) == FDiv(FSum(objs), IntV(Len(objs)))

\* abs(curr_obj - mean) < 1e-6
converged(obj, mean) == LtEps(AbsV(FAdd(obj, Neg(mean))))

\* the objectives fed: the floats nearest to -1/3 and -2/3
ObjValues == { FRound(Fin(-1, 3)), FRound(Fin(-2, 3)) }

HistoryInit ==
    /\ impl = "cython_history"
    /\ pc = "feed"
    /\ X = <<<<Zero>>>> /\ r = 1
    /\ W = <<>> /\ H = <<>> /\ XA = <<>>
    /\ curr_obj = Zero
    /\ prev_objs = [k \in 1..HistCapCython |-> Zero]
    /\ prev_index = 0
    /\ prev_mean = Zero
    /\ w = <<>> /\ h = <<>> /\ i = 0
    /\ nrec = 0
    /\ snap = <<>>
    /\ recorded = <<>>

\* one convergence check of the Cython version on the next objective
history_step ==
    /\ impl = "cython_history" /\ pc = "feed" /\ nrec < MaxObjs
    /\ \E obj \in ObjValues :
          /\ curr_obj' = obj
          /\ IF converged(obj, prev_mean)
             THEN /\ pc' = "stopped"
                  /\ UNCHANGED <<prev_objs, prev_index, prev_mean, nrec, recorded>>
             ELSE /\ prev_mean' =
                       incremental_mean(prev_mean, prev_objs[prev_index + 1], obj)
                  /\ prev_objs' = [prev_objs EXCEPT ![prev_index + 1] = obj]
                  /\ prev_index' = next_index(prev_index, HistCapCython)
                  /\ nrec' = nrec + 1
                  /\ recorded' = Remember(obj)
                  /\ pc' = "feed"
    /\ UNCHANGED <<impl, X, r, W, H, XA, snap, r1_vars>>

HistoryNext == history_step

HistorySpec == HistoryInit /\ [][HistoryNext]_vars

\* the largest magnitude of an objective fed
MaxAbsObj ==
    CHOOSE v \in { AbsV(o) : o \in ObjValues } :
        \A o \in ObjValues : IsFin(Sub(v, AbsV(o))) /\ Sub(v, AbsV(o))[2] >= 0

\* C13 as claimed: at every convergence test prev_mean equals the mean of
\* all 10 slots of the history, hence the test on prev_mean decides exactly
\* as the test on np.mean(prev_objs) for whatever objective comes next.
C13_RunningMeanIsBufferMean ==
    (impl = "cython_history" /\ pc = "feed") =>
        /\ prev_mean = buffer_mean(prev_objs)
        /\ \A obj \in ObjValues :
              converged(obj, prev_mean) = converged(obj, buffer_mean(prev_objs))

\* C13 as amended: at every convergence test prev_mean equals the mean of
\* all 10 slots up to rounding only: after t recorded objectives of
\* magnitude at most M the two differ by at most (5t + 11) * 2^-Prec * M.
C13_RunningMeanNearBufferMean ==
    (impl = "cython_history" /\ pc = "feed") =>
        LET d == AbsV(Sub(prev_mean, buffer_mean(prev_objs)))
            q == Div(d, MaxAbsObj)
        IN  IsFin(q) /\ q[2] * Pow2(Prec) <= (5 * nrec + 11) * q[3]

\* a test after the history wrapped where the two means are different numbers
C13_Witness ==
    /\ impl = "cython_history" /\ pc = "feed" /\ nrec > HistCapCython
    /\ IsFin(prev_mean) /\ IsFin(buffer_mean(prev_objs))
    /\ prev_mean # buffer_mean(prev_objs)

==========================================================================
